---- MODULE Spec2Model ----
(***************************************************************************)
(* A model of scripts/uf2conv.py, the firmware-image converter/flasher:    *)
(* the UF2 block codec (convert_to_uf2, convert_from_uf2), format          *)
(* detection (is_uf2, is_hex), the Intel HEX reader                        *)
(* (convert_from_hex_to_uf2), family resolution and the decision procedure *)
(* of main().                                                              *)
(*                                                                         *)
(* Buffers are sequences of bytes (0..255), as in the program.  A 32-bit   *)
(* header word is the 4-byte little-endian field struct.pack/unpack read   *)
(* and write.  TLC's integers are 32-bit signed, so numeric header fields  *)
(* of the model stay below 2^31 and the one constant above it              *)
(* (UF2_MAGIC_START1) is kept as its four bytes.                           *)
(***************************************************************************)
EXTENDS Integers, Sequences, FiniteSets, TLC

VARIABLES
    \* ---- module globals of uf2conv.py
    appstartaddr,     \* global appstartaddr
    familyid,         \* global familyid
    \* ---- UF2 codec: one conversion call
    pc,               \* position of the codec run
    flat,             \* the flat image handed to convert_to_uf2
    loadaddr,         \* the load address it was encoded with
    buf,              \* the UF2 buffer handed to convert_from_uf2
    blockno,          \* loop index of convert_from_uf2
    curraddr,         \* cursor
    currfamilyid,     \* current family
    families_found,   \* family id -> lowest target address
    prev_flag,
    all_flags_same,
    padding,          \* the gap computed for the block just processed
    outp,             \* accumulated output bytes
    result,           \* bytes returned by convert_from_uf2
    err,              \* why the call raised, "" while it has not
    \* ---- format detection: is_uf2 then is_hex on the input file
    detpc,            \* position of the detection run
    inpbuf,           \* the bytes read from the input file
    fmt,              \* the classification: "UF2", "HEX", "BIN", "" while none
    deterr,           \* the exception detection raised, "" while none
    \* ---- family resolution in main()
    fampc,            \* "idle", "resolved" or "error"
    family,           \* args.family, as its characters
    \* ---- main(): one invocation with an input file
    mpc,              \* position in main()
    args,             \* the parsed command line
    infmt,            \* what the input file is: "UF2", "HEX" or "BIN"
    raises,           \* whether the conversion of this input raises
    ext,              \* local ext
    outkind,          \* what outbuf is: "bytes", or "str" for the literal ""
    output,           \* args.output after line 685, "" for None
    opened,           \* the paths opened for writing so far (created or truncated)
    written,          \* the paths whose write completed
    present,          \* the bootloader drives mounted right now
    drives,           \* local drives: the result of the last scan
    didx,             \* how many of drives the loop of line 698 has handled
    waited,           \* whether "Waiting for drive to deploy..." was printed
    \* ---- convert_from_hex_to_uf2: one call
    hexpc,            \* "idle", "lines", "done" or "error"
    hexlines,         \* buf.split('\n')
    lineno,           \* how many lines the loop has taken
    upper,            \* the address accumulator
    blocks,           \* the Block objects, in the order they were made
    resfile,          \* the bytes returned
    hexerr            \* the exception raised, "" while none

codecVars == <<appstartaddr, familyid, pc, flat, loadaddr, buf, blockno, curraddr,
               currfamilyid, families_found, prev_flag, all_flags_same, padding,
               outp, result, err>>

codecLocals == <<pc, flat, loadaddr, buf, blockno, curraddr, currfamilyid,
                 families_found, prev_flag, all_flags_same, padding, outp, result, err>>

detVars == <<detpc, inpbuf, fmt, deterr>>

famVars == <<fampc, family>>

mainVars == <<mpc, args, infmt, raises, ext, outkind, output, opened, written,
              present, drives, didx, waited>>

hexVars == <<hexpc, hexlines, lineno, upper, blocks, resfile, hexerr>>

vars == <<codecVars, detVars, famVars, mainVars, hexVars>>

\* what the codec's actions leave alone
nonCodecVars == <<detVars, famVars, mainVars, hexVars>>
\* what detection's actions leave alone
nonDetVars == <<codecVars, famVars, mainVars, hexVars>>
\* what family resolution leaves alone: it sets the global familyid
nonFamVars == <<appstartaddr, codecLocals, detVars, mainVars, hexVars>>
\* what the steps of main() after the input is read leave alone
nonMainVars == <<codecVars, detVars, famVars, hexVars>>
\* what the HEX reader leaves alone: it sets the global appstartaddr
nonHexVars == <<familyid, codecLocals, detVars, famVars, mainVars>>

----------------------------------------------------------------------------
(* Bounds of the model *)

\* most 256-byte chunks of a flat image, most blocks of a UF2 buffer
MaxBlocks == 3

\* longest input file handed to format detection
MaxFileLen == 12

\* most lines of an Intel HEX text
MaxLines == 3

----------------------------------------------------------------------------
(* Bytes, words, slices *)

None == -1

Min(a, b) == IF a < b THEN a ELSE b

\* Python s[a:b] for 0 <= a <= b (0-based, end exclusive, clipped to len(s))
Slice(s, a, b) == SubSeq(s, a + 1, Min(b, Len(s)))

Zeros(n) == [i \in 1..n |-> 0]

\* struct.pack("<I", n)
LE32(n) == <<n % 256, (n \div 256) % 256, (n \div 65536) % 256, (n \div 16777216) % 256>>

\* struct.unpack("<I", w)[0]
U32(w) == w[1] + 256 * w[2] + 65536 * w[3] + 16777216 * w[4]

\* n & m for a mask m that is a single bit
BitSet(n, m) == (n \div m) % 2 = 1

RECURSIVE Join(_)
\* b"".join(parts)
Join(parts) == IF parts = <<>> THEN <<>> ELSE Head(parts) \o Join(Tail(parts))

UF2_MAGIC_START0 == LE32(171066965)      \* 0x0A324655
UF2_MAGIC_START1 == <<87, 81, 93, 158>>  \* 0x9E5D5157, little-endian
UF2_MAGIC_END == LE32(179400496)         \* 0x0AB16F30

BlockSize == 512
ChunkSize == 256
HeaderSize == 32
MaxPayload == 476
FLAG_NOFLASH == 1
FLAG_FAMILY == 8192
MaxPadding == 10485760

----------------------------------------------------------------------------
(* convert_to_uf2 *)

\* datapadding: grown by 4 zero bytes while shorter than 512 - 256 - 32 - 4
DataPadding == Zeros(4 * ((BlockSize - ChunkSize - HeaderSize - 4 + 3) \div 4))

\* a chunk count that drops a ragged last chunk
NumChunksFloor(file_content) == Len(file_content) \div ChunkSize

NumChunks(file_content) == (Len(file_content) + 255) \div ChunkSize

EncFlags(fam) == IF fam # 0 THEN FLAG_FAMILY ELSE 0

\* while len(chunk) < 256: chunk += b"\x00"
PadChunk(chunk) == chunk \o Zeros(ChunkSize - Len(chunk))

EncHeader(flags, addr, blk, numblocks, fam) ==
    UF2_MAGIC_START0 \o UF2_MAGIC_START1 \o LE32(flags) \o LE32(addr)
        \o LE32(ChunkSize) \o LE32(blk) \o LE32(numblocks) \o LE32(fam)

EncBlock(file_content, blk, base, fam) ==
    LET ptr == ChunkSize * blk
        chunk == Slice(file_content, ptr, ptr + ChunkSize)
    IN EncHeader(EncFlags(fam), ptr + base, blk, NumChunks(file_content), fam)
         \o PadChunk(chunk) \o DataPadding \o UF2_MAGIC_END

convert_to_uf2(file_content, base, fam) ==
    Join([b \in 1..NumChunks(file_content) |-> EncBlock(file_content, b - 1, base, fam)])

----------------------------------------------------------------------------
(* convert_from_uf2 *)

NumBlocks(b) == Len(b) \div BlockSize

\* block = buf[ptr:ptr + 512]
BlockAt(b, n) == Slice(b, n * BlockSize, n * BlockSize + BlockSize)

\* the k-th packed header word of a block (k = 0..7)
Field(block, k) == SubSeq(block, 4 * k + 1, 4 * k + 4)

HdFlags(block) == U32(Field(block, 2))
HdAddr(block) == U32(Field(block, 3))
HdLen(block) == U32(Field(block, 4))
HdFamily(block) == U32(Field(block, 7))

\* hd[0] != UF2_MAGIC_START0 or hd[1] != UF2_MAGIC_START1
BadMagic(block) ==
    Field(block, 0) # UF2_MAGIC_START0 \/ Field(block, 1) # UF2_MAGIC_START1

\* hd[2] & 1
NoFlash(block) == BitSet(HdFlags(block), FLAG_NOFLASH)

\* hd[2] & 0x2000
Tagged(block) == BitSet(HdFlags(block), FLAG_FAMILY)

\* currfamilyid after line 403-404
AdoptFirst(block, cf) == IF Tagged(block) /\ cf = None THEN HdFamily(block) ELSE cf

\* a reset test that lets a family change count only under a family filter
ResetsCursorFiltered(block, ca, cf) ==
    ca = None \/ (Tagged(block) /\ HdFamily(block) # cf /\ familyid # 0)

\* curraddr == None or ((hd[2] & 0x2000) and hd[7] != currfamilyid)
ResetsCursor(block, ca, cf) ==
    ca = None \/ (Tagged(block) /\ HdFamily(block) # cf)

\* familyid == 0x0 or familyid == hd[7]
SetsStart(block, filter) == filter = 0 \/ filter = HdFamily(block)

\* a filter test that forgets that filter 0 accepts every block
PassesFilterStrict(block, filter) == Tagged(block) /\ filter = HdFamily(block)

\* a filter test that compares the family field of untagged blocks too
PassesFilterAnyFlag(block, filter) == filter = 0 \/ filter = HdFamily(block)

\* familyid == 0x0 or ((hd[2] & 0x2000) and familyid == hd[7])
PassesFilter(block, filter) ==
    filter = 0 \/ (Tagged(block) /\ filter = HdFamily(block))

\* padding checks that let a gap of any alignment through
PaddingErrorLax(p) ==
    IF p < 0 THEN "out of order"
    ELSE IF p > MaxPadding THEN "padding over 10M"
    ELSE ""

\* the reason the padding checks raise, "" when they pass
PaddingError(p) ==
    IF p < 0 THEN "out of order"
    ELSE IF p > MaxPadding THEN "padding over 10M"
    ELSE IF p % 4 # 0 THEN "non-word padding"
    ELSE ""

\* lines 417-419: four zero bytes while padding > 0, padding going down by 4
PaddingBytes(p) == IF p > 0 THEN Zeros(4 * ((p + 3) \div 4)) ELSE <<>>

\* a cursor that advances by the size of the data area, not the payload length
NextCursorArea(newaddr, datalen) == newaddr + MaxPayload

\* curraddr = newaddr + datalen
NextCursor(newaddr, datalen) == newaddr + datalen

\* families_found after lines 423-428
RecordFamily(ff, block) ==
    LET f == HdFamily(block)
        a == HdAddr(block)
    IN IF ~Tagged(block) THEN ff
       ELSE IF f \in DOMAIN ff
            THEN (IF ff[f] > a THEN [ff EXCEPT ![f] = a] ELSE ff)
            ELSE [x \in DOMAIN ff \cup {f} |-> IF x = f THEN a ELSE ff[x]]

\* len(families_found) > 1 and familyid == 0x0
Ambiguous(ff, filter) == Cardinality(DOMAIN ff) > 1 /\ filter = 0

\* the locals of convert_from_uf2 before its loop
DecodeLocals ==
    /\ blockno' = 0
    /\ curraddr' = None
    /\ currfamilyid' = None
    /\ families_found' = <<>>
    /\ prev_flag' = None
    /\ all_flags_same' = TRUE
    /\ padding' = None
    /\ outp' = <<>>

Raise(why) ==
    /\ pc' = "error"
    /\ err' = why
    /\ UNCHANGED <<appstartaddr, familyid, flat, loadaddr, buf, blockno, curraddr,
                   currfamilyid, families_found, prev_flag, all_flags_same, padding,
                   outp, result>>

\* one iteration of the loop over the blocks
DecodeBlock ==
    /\ pc = "decode"
    /\ blockno < NumBlocks(buf)
    /\ UNCHANGED nonCodecVars
    /\ LET block == BlockAt(buf, blockno)
           datalen == HdLen(block)
           newaddr == HdAddr(block)
           cf1 == AdoptFirst(block, currfamilyid)
           reset == ResetsCursor(block, curraddr, cf1)
           cf2 == IF reset THEN HdFamily(block) ELSE cf1
           ca2 == IF reset THEN newaddr ELSE curraddr
           start2 == IF reset /\ SetsStart(block, familyid) THEN newaddr ELSE appstartaddr
           pad == newaddr - ca2
           out2 == outp \o PaddingBytes(pad)
                        \o (IF PassesFilter(block, familyid)
                            THEN Slice(block, HeaderSize, HeaderSize + datalen)
                            ELSE <<>>)
           ff2 == RecordFamily(families_found, block)
           last == blockno = NumBlocks(buf) - 1
       IN IF BadMagic(block)
          THEN Raise("bad magic message")  \* "Skipping block at " + ptr raises TypeError
          ELSE IF NoFlash(block)
          THEN /\ blockno' = blockno + 1
               /\ UNCHANGED <<appstartaddr, familyid, pc, flat, loadaddr, buf, curraddr,
                              currfamilyid, families_found, prev_flag, all_flags_same,
                              padding, outp, result, err>>
          ELSE IF datalen > MaxPayload
          THEN Raise("data size")
          ELSE IF PaddingError(pad) # ""
          THEN /\ pc' = "error"
               /\ err' = PaddingError(pad)
               /\ currfamilyid' = cf2
               /\ curraddr' = ca2
               /\ appstartaddr' = start2
               /\ padding' = pad
               /\ UNCHANGED <<familyid, flat, loadaddr, buf, blockno, families_found,
                              prev_flag, all_flags_same, outp, result>>
          ELSE /\ currfamilyid' = cf2
               /\ curraddr' = NextCursor(newaddr, datalen)
               /\ padding' = pad
               /\ families_found' = ff2
               /\ prev_flag' = IF prev_flag = None THEN HdFlags(block) ELSE prev_flag
               /\ all_flags_same' = (all_flags_same /\ prev_flag' = HdFlags(block))
               /\ outp' = IF last /\ Ambiguous(ff2, familyid) THEN <<>> ELSE out2
               /\ appstartaddr' = IF last /\ Ambiguous(ff2, familyid) THEN 0 ELSE start2
               /\ blockno' = blockno + 1
               /\ UNCHANGED <<familyid, pc, flat, loadaddr, buf, result, err>>

\* return b"".join(outp)
DecodeReturn ==
    /\ pc = "decode"
    /\ blockno = NumBlocks(buf)
    /\ pc' = "done"
    /\ result' = outp
    /\ UNCHANGED nonCodecVars
    /\ UNCHANGED <<appstartaddr, familyid, flat, loadaddr, buf, blockno, curraddr,
                   currfamilyid, families_found, prev_flag, all_flags_same, padding,
                   outp, err>>

----------------------------------------------------------------------------
(* Inputs of the codec *)

FamA == 1760373640   \* 0x68ed2b88, SAMD21
FamB == 458716255    \* 0x1b57745f, NRF52
FamilyIds == {0, FamA, FamB}

DefaultBase == 8192  \* 0x2000
BaseAddrs == {0, DefaultBase, 32768}

\* flat images: every chunk count up to MaxBlocks, full and ragged last chunks
ImageLens ==
    {k * ChunkSize + d : k \in 0..(MaxBlocks - 1), d \in {0, 1, 255}}
        \cup {MaxBlocks * ChunkSize}
Patterns == {1, 7}
Image(len, pat) == [i \in 1..len |-> (pat * i) % 256]

\* UF2 blocks as they may be found in a file: magic words right or wrong,
\* flags, target address, payload length, family field
FarAddr == DefaultBase + 16777216
BlockKinds ==
    {[m0 |-> TRUE, m1 |-> TRUE, flags |-> FLAG_FAMILY, addr |-> DefaultBase, len |-> 256, fam |-> FamA],
     [m0 |-> TRUE, m1 |-> TRUE, flags |-> FLAG_FAMILY, addr |-> DefaultBase + 512, len |-> 256, fam |-> FamA],
     [m0 |-> TRUE, m1 |-> TRUE, flags |-> FLAG_FAMILY, addr |-> DefaultBase, len |-> 256, fam |-> FamB],
     [m0 |-> TRUE, m1 |-> TRUE, flags |-> FLAG_FAMILY, addr |-> DefaultBase + 512, len |-> 256, fam |-> FamB],
     [m0 |-> TRUE, m1 |-> TRUE, flags |-> 0, addr |-> DefaultBase + 256, len |-> 256, fam |-> 0],
     [m0 |-> TRUE, m1 |-> TRUE, flags |-> 0, addr |-> DefaultBase + 768, len |-> 8, fam |-> FamA],
     [m0 |-> TRUE, m1 |-> TRUE, flags |-> FLAG_FAMILY + FLAG_NOFLASH, addr |-> DefaultBase, len |-> 256, fam |-> FamA],
     [m0 |-> FALSE, m1 |-> TRUE, flags |-> FLAG_FAMILY, addr |-> DefaultBase, len |-> 256, fam |-> FamA],
     [m0 |-> TRUE, m1 |-> FALSE, flags |-> FLAG_FAMILY, addr |-> DefaultBase, len |-> 256, fam |-> FamA],
     [m0 |-> TRUE, m1 |-> TRUE, flags |-> FLAG_FAMILY, addr |-> DefaultBase + 256, len |-> MaxPayload + 1, fam |-> FamA],
     [m0 |-> TRUE, m1 |-> TRUE, flags |-> FLAG_FAMILY, addr |-> DefaultBase + 258, len |-> 4, fam |-> FamA],
     [m0 |-> TRUE, m1 |-> TRUE, flags |-> FLAG_FAMILY, addr |-> FarAddr, len |-> 256, fam |-> FamA]}

\* the 512 bytes of such a block; its data area holds the low byte of its length
MkBlock(k) ==
    (IF k.m0 THEN UF2_MAGIC_START0 ELSE LE32(0))
        \o (IF k.m1 THEN UF2_MAGIC_START1 ELSE LE32(0))
        \o LE32(k.flags) \o LE32(k.addr) \o LE32(k.len) \o LE32(0) \o LE32(0)
        \o LE32(k.fam) \o [i \in 1..MaxPayload |-> 1 + (k.len % 255)] \o UF2_MAGIC_END

RECURSIVE KindSeqs(_)
KindSeqs(n) ==
    IF n = 0 THEN {<<>>}
    ELSE KindSeqs(n - 1)
           \cup {Append(s, k) : s \in {q \in KindSeqs(n - 1) : Len(q) = n - 1}, k \in BlockKinds}

MkBuffer(ks) == Join([i \in 1..Len(ks) |-> MkBlock(ks[i])])

\* the command line before it is parsed
NoArgs ==
    [deploy |-> FALSE, info |-> FALSE, convert |-> FALSE, carray |-> FALSE,
     wait |-> FALSE, output |-> "", device_path |-> ""]

----------------------------------------------------------------------------
(* The codec's runs *)

Init ==
    /\ appstartaddr = DefaultBase
    /\ familyid = 0
    /\ pc = "idle"
    /\ flat = <<>>
    /\ loadaddr = None
    /\ buf = <<>>
    /\ blockno = 0
    /\ curraddr = None
    /\ currfamilyid = None
    /\ families_found = <<>>
    /\ prev_flag = None
    /\ all_flags_same = TRUE
    /\ padding = None
    /\ outp = <<>>
    /\ result = <<>>
    /\ err = ""
    /\ detpc = "idle"
    /\ inpbuf = <<>>
    /\ fmt = ""
    /\ deterr = ""
    /\ fampc = "idle"
    /\ family = <<>>
    /\ mpc = "start"
    /\ args = NoArgs
    /\ infmt = ""
    /\ raises = FALSE
    /\ ext = ""
    /\ outkind = ""
    /\ output = ""
    /\ opened = {}
    /\ written = {}
    /\ present = {}
    /\ drives = <<>>
    /\ didx = 0
    /\ waited = FALSE
    /\ hexpc = "idle"
    /\ hexlines = <<>>
    /\ lineno = 0
    /\ upper = 0
    /\ blocks = <<>>
    /\ resfile = <<>>
    /\ hexerr = ""

\* main() on a raw binary: --base, --family, then outbuf = convert_to_uf2(inpbuf)
Encode ==
    /\ pc = "idle"
    /\ UNCHANGED nonCodecVars
    /\ \E len \in ImageLens, pat \in Patterns, base \in BaseAddrs, fam \in FamilyIds :
          /\ flat' = Image(len, pat)
          /\ loadaddr' = base
          /\ appstartaddr' = base
          /\ familyid' = fam
          /\ buf' = convert_to_uf2(Image(len, pat), base, fam)
    /\ pc' = "encoded"
    /\ UNCHANGED <<blockno, curraddr, currfamilyid, families_found, prev_flag,
                   all_flags_same, padding, outp, result, err>>

\* convert_from_uf2 called on the encoder's output, under the same family or none
DecodeEncoded ==
    /\ pc = "encoded"
    /\ UNCHANGED nonCodecVars
    /\ \E filter \in {familyid, 0} : familyid' = filter
    /\ pc' = "decode"
    /\ DecodeLocals
    /\ UNCHANGED <<appstartaddr, flat, loadaddr, buf, result, err>>

\* convert_from_uf2 called on a UF2 file, under any family filter
DecodeFile ==
    /\ pc = "idle"
    /\ UNCHANGED nonCodecVars
    /\ \E ks \in KindSeqs(MaxBlocks), filter \in FamilyIds :
          /\ buf' = MkBuffer(ks)
          /\ familyid' = filter
    /\ pc' = "decode"
    /\ DecodeLocals
    /\ UNCHANGED <<appstartaddr, flat, loadaddr, result, err>>

Next == Encode \/ DecodeEncoded \/ DecodeFile \/ DecodeBlock \/ DecodeReturn

Spec == Init /\ [][Next]_vars

----------------------------------------------------------------------------
(* Properties of the codec *)

\* the k-th 512-byte block of the encoder's output (k = 0..)
OutBlock(k) == BlockAt(buf, k)

\* a flat image zero-padded to a whole number of 256-byte chunks
PadToChunks(img) == img \o Zeros((ChunkSize - (Len(img) % ChunkSize)) % ChunkSize)

RoundTrip == loadaddr # None

\* C1 as stated: encoding a flat image of any length and decoding the result
\* under the same family or under none returns exactly the original bytes
\* and the original load address.
C1_RoundTripExact ==
    RoundTrip =>
        /\ pc # "error"
        /\ pc = "done" => (result = flat /\ appstartaddr = loadaddr)

\* C1 amended: the decoded image is the original zero-padded to a whole
\* number of 256-byte chunks (the original itself when its length is a
\* multiple of 256), decoding never fails, and the start address is the
\* original load address.
C1_RoundTripPadded ==
    RoundTrip =>
        /\ pc # "error"
        /\ pc = "done" =>
              /\ result = PadToChunks(flat)
              /\ Len(flat) % ChunkSize = 0 => result = flat
              /\ appstartaddr = loadaddr

C1_Witness ==
    /\ RoundTrip /\ pc = "done"
    /\ Len(flat) = ChunkSize + 1
    /\ familyid = 0 /\ Tagged(OutBlock(0))
    /\ result # flat

\* C2: decoded with no filter, a buffer in which more than one family was
\* observed returns an empty image and start address 0, whatever its last
\* block is.
C2_AmbiguousIsEmpty ==
    (pc = "done" /\ familyid = 0 /\ Cardinality(DOMAIN families_found) > 1)
        => (result = <<>> /\ appstartaddr = 0)

\* C3: a block with a wrong start magic is skipped: the call goes on to the
\* next block with cursor, current family and output unchanged.
C3_BadMagicSkipped ==
    [][(pc = "decode" /\ blockno < NumBlocks(buf) /\ BadMagic(BlockAt(buf, blockno)))
          => (/\ pc' = "decode"
              /\ blockno' = blockno + 1
              /\ UNCHANGED <<curraddr, currfamilyid, outp>>)]_vars

WellFormed(b) ==
    \A i \in 0..(NumBlocks(b) - 1) :
        ~BadMagic(BlockAt(b, i)) /\ HdLen(BlockAt(b, i)) <= MaxPayload

Homogeneous(b) ==
    \A i, j \in 0..(NumBlocks(b) - 1) :
        /\ HdFlags(BlockAt(b, i)) = HdFlags(BlockAt(b, j))
        /\ HdFamily(BlockAt(b, i)) = HdFamily(BlockAt(b, j))

\* every block starts a word-multiple, at most 10 MiB, after its predecessor's end
Ascending(b) ==
    \A i \in 1..(NumBlocks(b) - 1) :
        LET gap == HdAddr(BlockAt(b, i))
                     - (HdAddr(BlockAt(b, i - 1)) + HdLen(BlockAt(b, i - 1)))
        IN gap >= 0 /\ gap % 4 = 0 /\ gap <= MaxPadding

GapIsWordMultiple == padding # None => (padding >= 0 /\ padding % 4 = 0)

\* C9 as stated: a well-formed, homogeneously tagged buffer never fails to
\* decode and every gap computed is a non-negative multiple of 4.
C9_HomogeneousNeverFails ==
    (pc \in {"decode", "done", "error"} /\ WellFormed(buf) /\ Homogeneous(buf))
        => (pc # "error" /\ GapIsWordMultiple)

\* C9 amended: the same, for buffers whose blocks are also in ascending
\* order, each starting a multiple of 4 bytes (at most 10 MiB) after the end
\* of the block before it.
C9_AscendingNeverFails ==
    (pc \in {"decode", "done", "error"} /\ WellFormed(buf) /\ Homogeneous(buf)
        /\ Ascending(buf))
        => (pc # "error" /\ GapIsWordMultiple)

C9_Witness ==
    /\ pc = "done" /\ ~RoundTrip
    /\ WellFormed(buf) /\ Homogeneous(buf) /\ Ascending(buf)
    /\ NumBlocks(buf) >= 2
    /\ padding > 0
    /\ result # <<>>

\* C10: convert_to_uf2 returns ceil(L/256) blocks of 512 bytes; block i has
\* the family flag iff the family is not 0, target address A + 256 i, block
\* index i, the block count, the family, a payload length of at most 476
\* and the i-th 256 bytes of the image, zero-padded.
C10_EncodedLayout ==
    pc = "encoded" =>
        LET L == Len(flat)
            n == NumBlocks(buf)
        IN /\ Len(buf) = BlockSize * n
           /\ ChunkSize * n >= L /\ ChunkSize * (n - 1) < L
           /\ \A i \in 0..(n - 1) :
                 LET b == OutBlock(i)
                 IN /\ Len(b) = BlockSize
                    /\ ~BadMagic(b)
                    /\ Tagged(b) <=> familyid # 0
                    /\ HdAddr(b) = loadaddr + ChunkSize * i
                    /\ U32(Field(b, 5)) = i
                    /\ U32(Field(b, 6)) = n
                    /\ HdFamily(b) = familyid
                    /\ HdLen(b) <= MaxPayload
                    /\ \A j \in 0..(ChunkSize - 1) :
                          b[HeaderSize + 1 + j]
                            = IF ChunkSize * i + j < L THEN flat[ChunkSize * i + j + 1] ELSE 0
           /\ n > 0 => (HdFamily(OutBlock(0)) = familyid /\ HdAddr(OutBlock(0)) = loadaddr)

C10_Witness ==
    /\ pc = "encoded"
    /\ Len(flat) = ChunkSize + 1
    /\ NumBlocks(buf) = 2
    /\ familyid = FamA
    /\ loadaddr = 32768

\* the loop is at a block it accepts: magics right, no-flash bit clear,
\* payload length within the data area
AtAcceptedBlock ==
    /\ pc = "decode"
    /\ blockno < NumBlocks(buf)
    /\ ~BadMagic(BlockAt(buf, blockno))
    /\ ~NoFlash(BlockAt(buf, blockno))
    /\ HdLen(BlockAt(buf, blockno)) <= MaxPayload

\* the block at hand is tagged with a family other than the current one
FamilyChange ==
    Tagged(BlockAt(buf, blockno)) /\ HdFamily(BlockAt(buf, blockno)) # currfamilyid

\* what a step shows of the cursor: with a reset the gap is 0 and the
\* block's family is the current one, without it the gap is taken from the
\* end of the previous block and the current family stays
CursorStep(reset) ==
    /\ padding' = IF reset THEN 0 ELSE HdAddr(BlockAt(buf, blockno)) - curraddr
    /\ currfamilyid' = IF reset THEN HdFamily(BlockAt(buf, blockno)) ELSE currfamilyid

\* C17 as stated: the cursor is reset to the block's target address, and
\* its family adopted, exactly at the first accepted block and at a tagged
\* block of another family while a filter is active; with filter 0 a
\* family change leaves the cursor alone.
C17_ResetOnlyWhenFiltering ==
    [][AtAcceptedBlock =>
          CursorStep(curraddr = None \/ (FamilyChange /\ familyid # 0))]_vars

\* C17, amended: the cursor is reset to the block's target address, and its
\* family adopted, exactly at the first accepted block and at a tagged block
\* of another family, whatever the filter is.
C17_ResetOnFamilyChange ==
    [][AtAcceptedBlock => CursorStep(curraddr = None \/ FamilyChange)]_vars

\* under filter 0, a tagged block of another family was taken after a block
\* that did not end at its target address, and the cursor was reset
C17_Witness ==
    /\ pc = "decode"
    /\ familyid = 0
    /\ blockno = 2
    /\ ~BadMagic(BlockAt(buf, 0)) /\ ~NoFlash(BlockAt(buf, 0))
    /\ Tagged(BlockAt(buf, 0)) /\ Tagged(BlockAt(buf, 1))
    /\ HdFamily(BlockAt(buf, 1)) # HdFamily(BlockAt(buf, 0))
    /\ HdAddr(BlockAt(buf, 1)) # HdAddr(BlockAt(buf, 0)) + HdLen(BlockAt(buf, 0))
    /\ currfamilyid = HdFamily(BlockAt(buf, 1))
    /\ curraddr = HdAddr(BlockAt(buf, 1)) + HdLen(BlockAt(buf, 1))
    /\ padding = 0

\* block[32 : 32 + datalen] of the block at hand
PayloadAtHand ==
    Slice(BlockAt(buf, blockno), HeaderSize, HeaderSize + HdLen(BlockAt(buf, blockno)))

\* the step took the block at hand and kept the output: no check failed and
\* the output was not thrown away after the last block
BlockTaken ==
    /\ AtAcceptedBlock
    /\ pc' = "decode"
    /\ blockno' = blockno + 1
    /\ ~(blockno = NumBlocks(buf) - 1 /\ Ambiguous(families_found', familyid))

\* the step put the gap's zero bytes and then, if passes, the payload at the
\* end of the output
OutputStep(passes) ==
    outp' = outp \o Zeros(padding') \o (IF passes THEN PayloadAtHand ELSE <<>>)

\* C18 as stated: the payload of an accepted block is appended exactly when
\* the filter is 0 or the block's family field equals the filter, whether
\* or not the block carries the family flag 0x2000.
C18_AppendedIffFieldMatches ==
    [][BlockTaken =>
          OutputStep(familyid = 0 \/ HdFamily(BlockAt(buf, blockno)) = familyid)]_vars

\* C18, amended: the payload of an accepted block is appended exactly when
\* the filter is 0, or the block carries the family flag 0x2000 and its
\* family field equals the filter.
C18_AppendedIffTaggedMatches ==
    [][BlockTaken =>
          OutputStep(\/ familyid = 0
                     \/ (/\ Tagged(BlockAt(buf, blockno))
                         /\ HdFamily(BlockAt(buf, blockno)) = familyid))]_vars

\* under a filter, an untagged block whose family field equals the filter
\* was taken and its payload left out
C18_Witness ==
    /\ pc = "decode"
    /\ familyid # 0
    /\ blockno = 1
    /\ ~BadMagic(BlockAt(buf, 0)) /\ ~NoFlash(BlockAt(buf, 0))
    /\ ~Tagged(BlockAt(buf, 0))
    /\ HdFamily(BlockAt(buf, 0)) = familyid
    /\ HdLen(BlockAt(buf, 0)) > 0
    /\ curraddr = HdAddr(BlockAt(buf, 0)) + HdLen(BlockAt(buf, 0))
    /\ outp = <<>>

\* the loop is at a block with the right magics and the no-flash bit clear
AtFlashBlock ==
    /\ pc = "decode"
    /\ blockno < NumBlocks(buf)
    /\ ~BadMagic(BlockAt(buf, blockno))
    /\ ~NoFlash(BlockAt(buf, blockno))

\* targetAddr - cursor for the block at hand, the cursor being the block's
\* own address where the block resets it
GapAtHand ==
    IF curraddr = None \/ FamilyChange THEN 0
    ELSE HdAddr(BlockAt(buf, blockno)) - curraddr

\* C19: for every accepted block, with gap = targetAddr - cursor: a gap
\* that is negative, not a multiple of 4 or over 10 MiB, or a payload
\* length over 476, makes the call fail and return no image; otherwise the
\* cursor becomes targetAddr + payloadLen and exactly gap zero bytes are put
\* into the output before the block's payload (all of which the discard
\* after the last block of an ambiguous buffer may then throw away).
C19_GapChecked ==
    [][AtFlashBlock =>
          IF \/ HdLen(BlockAt(buf, blockno)) > MaxPayload
             \/ GapAtHand < 0
             \/ GapAtHand % 4 # 0
             \/ GapAtHand > MaxPadding
          THEN /\ pc' = "error"
               /\ err' # ""
               /\ UNCHANGED <<outp, result, blockno>>
               /\ result = <<>>
          ELSE /\ pc' = "decode"
               /\ blockno' = blockno + 1
               /\ curraddr' = HdAddr(BlockAt(buf, blockno)) + HdLen(BlockAt(buf, blockno))
               /\ \/ outp' = outp \o Zeros(GapAtHand) \o PayloadAtHand
                  \/ outp' = outp \o Zeros(GapAtHand)
                  \/ (/\ outp' = <<>>
                      /\ blockno = NumBlocks(buf) - 1
                      /\ Ambiguous(families_found', familyid))]_vars

\* two payloads with the zero bytes of a positive gap between them
C19_Witness ==
    /\ pc = "decode"
    /\ blockno = 2
    /\ padding > 0
    /\ curraddr = HdAddr(BlockAt(buf, 1)) + HdLen(BlockAt(buf, 1))
    /\ Len(outp) = HdLen(BlockAt(buf, 0)) + padding + HdLen(BlockAt(buf, 1))
    /\ SubSeq(outp, HdLen(BlockAt(buf, 0)) + 1, HdLen(BlockAt(buf, 0)) + padding)
          = Zeros(padding)
    /\ padding = HdAddr(BlockAt(buf, 1)) - (HdAddr(BlockAt(buf, 0)) + HdLen(BlockAt(buf, 0)))

\* the blocks of the buffer whose payload the call appended: right magics,
\* no-flash bit clear, and the filter 0 or equal to the family of a tagged block
AppendedBlocks ==
    {i \in 0..(NumBlocks(buf) - 1) :
        /\ ~BadMagic(BlockAt(buf, i))
        /\ ~NoFlash(BlockAt(buf, i))
        /\ (familyid = 0 \/ (Tagged(BlockAt(buf, i)) /\ HdFamily(BlockAt(buf, i)) = familyid))}

\* C20: when the call returns a non-empty image, with S the start address it
\* set: every payload byte of an appended block with target address T, at
\* payload offset k, is at index (T + k) - S of the image; S is the lowest
\* target address of the appended blocks; and the image ends with the last
\* appended byte, so it holds no bytes of blocks that failed the filter.
C20_AddressConsistent ==
    (pc = "done" /\ result # <<>>) =>
        /\ AppendedBlocks # {}
        /\ \A i \in AppendedBlocks :
              /\ appstartaddr <= HdAddr(BlockAt(buf, i))
              /\ HdAddr(BlockAt(buf, i)) + HdLen(BlockAt(buf, i)) - appstartaddr <= Len(result)
              /\ \A k \in 0..(HdLen(BlockAt(buf, i)) - 1) :
                    result[HdAddr(BlockAt(buf, i)) + k - appstartaddr + 1]
                        = BlockAt(buf, i)[HeaderSize + k + 1]
        /\ \E i \in AppendedBlocks :
              appstartaddr = HdAddr(BlockAt(buf, i))
        /\ \E i \in AppendedBlocks :
              Len(result) = HdAddr(BlockAt(buf, i)) + HdLen(BlockAt(buf, i)) - appstartaddr

----------------------------------------------------------------------------
(* Characters and text *)

\* a string literal as the sequence of its characters
Chars(s) == [i \in 1..Len(s) |-> SubSeq(s, i, i)]

Digits == Chars("0123456789")
UpperLetters == Chars("ABCDEFGHIJKLMNOPQRSTUVWXYZ")
LowerLetters == Chars("abcdefghijklmnopqrstuvwxyz")

Range(s) == {s[i] : i \in 1..Len(s)}

IndexOf(s, c) == CHOOSE i \in 1..Len(s) : s[i] = c

\* ord(c) for the ASCII characters the model uses
Ord(c) ==
    IF c \in Range(Digits) THEN 47 + IndexOf(Digits, c)
    ELSE IF c \in Range(UpperLetters) THEN 64 + IndexOf(UpperLetters, c)
    ELSE IF c \in Range(LowerLetters) THEN 96 + IndexOf(LowerLetters, c)
    ELSE IF c = ":" THEN 58
    ELSE IF c = "\n" THEN 10
    ELSE IF c = "\r" THEN 13
    ELSE IF c = "#" THEN 35
    ELSE IF c = "-" THEN 45
    ELSE 32

\* text.encode("ascii")
Encode8(text) == [i \in 1..Len(text) |-> Ord(text[i])]

----------------------------------------------------------------------------
(* is_uf2, is_hex *)

\* struct.unpack("<II", buf[0:8]): raises struct.error unless 8 bytes are there
is_uf2(b) ==
    LET head == Slice(b, 0, 8)
    IN IF Len(head) # 8 THEN "struct.error"
       ELSE IF SubSeq(head, 1, 4) = UF2_MAGIC_START0 /\ SubSeq(head, 5, 8) = UF2_MAGIC_START1
            THEN "True"
            ELSE "False"

Continuation(x) == x >= 128 /\ x <= 191

RECURSIVE Utf8Valid(_)
\* whether bytes.decode("utf-8") accepts the bytes
Utf8Valid(s) ==
    IF s = <<>> THEN TRUE
    ELSE LET a == s[1]
             n == Len(s)
         IN IF a < 128 THEN Utf8Valid(Tail(s))
            ELSE IF a >= 194 /\ a <= 223
                 THEN n >= 2 /\ Continuation(s[2]) /\ Utf8Valid(SubSeq(s, 3, n))
            ELSE IF a >= 224 /\ a <= 239
                 THEN /\ n >= 3 /\ Continuation(s[2]) /\ Continuation(s[3])
                      /\ (a = 224 => s[2] >= 160)
                      /\ (a = 237 => s[2] <= 159)
                      /\ Utf8Valid(SubSeq(s, 4, n))
            ELSE IF a >= 240 /\ a <= 244
                 THEN /\ n >= 4 /\ Continuation(s[2]) /\ Continuation(s[3])
                      /\ Continuation(s[4])
                      /\ (a = 240 => s[2] >= 144)
                      /\ (a = 244 => s[2] <= 143)
                      /\ Utf8Valid(SubSeq(s, 5, n))
            ELSE FALSE

\* the bytes of the class [:0-9a-fA-F\r\n]
HexClass ==
    {Ord(":"), Ord("\r"), Ord("\n")} \cup (48..57) \cup (97..102) \cup (65..70)

\* re.match(rb"^[:0-9a-fA-F\r\n]+$", buf)
MatchesHexClass(b) == Len(b) > 0 /\ \A i \in 1..Len(b) : b[i] \in HexClass

is_hex(b) ==
    LET w == Slice(b, 0, 30)
    IN IF ~Utf8Valid(w) THEN "False"         \* except UnicodeDecodeError
       ELSE IF Len(w) = 0 THEN "IndexError"  \* w[0] of an empty string
       ELSE IF w[1] = Ord(":") /\ MatchesHexClass(b) THEN "True"
       ELSE "False"

----------------------------------------------------------------------------
(* Format detection as main() runs it *)

\* input files: every prefix, up to MaxFileLen bytes, of a UF2 header, of a
\* header with a wrong second magic word, of Intel HEX text, of HEX text
\* with a stray character, of plain text, of bytes that are not UTF-8 and of
\* text with a two-byte character; and two files longer than 30 bytes
FileHeads ==
    {UF2_MAGIC_START0 \o UF2_MAGIC_START1 \o LE32(FLAG_FAMILY) \o LE32(DefaultBase),
     UF2_MAGIC_START0 \o LE32(0) \o LE32(FLAG_FAMILY) \o LE32(DefaultBase),
     Encode8(Chars(":00000001FF\n:00000001FF\n")),
     Encode8(Chars(":0a\r\n:0G000000\r\n")),
     Encode8(Chars("hello world 0123")),
     <<255, 254, 0, 1, 2, 3, 4, 5, 6, 7, 8, 9, 10, 11, 12, 13>>,
     <<58, 48, 49, 195, 169, 48, 49, 50, 51, 52, 53, 54, 55, 56, 57, 48>>}

LongFiles ==
    {Encode8(Chars(":10000000000102030405060708090A0B0C0D0E0F78\n")),
     Encode8(Chars(":1000000000010203040506070809")) \o <<195, 169>>}

InputFiles == {Slice(h, 0, n) : h \in FileHeads, n \in 0..MaxFileLen} \cup LongFiles

\* inpbuf = f.read()
ReadInput ==
    /\ detpc = "idle"
    /\ \E f \in InputFiles : inpbuf' = f
    /\ detpc' = "is_uf2"
    /\ UNCHANGED <<fmt, deterr>>
    /\ UNCHANGED nonDetVars

\* from_uf2 = is_uf2(inpbuf)
DetectUF2 ==
    /\ detpc = "is_uf2"
    /\ LET r == is_uf2(inpbuf)
       IN /\ detpc' = IF r = "True" THEN "done" ELSE IF r = "False" THEN "is_hex" ELSE "error"
          /\ fmt' = IF r = "True" THEN "UF2" ELSE fmt
          /\ deterr' = IF r \in {"True", "False"} THEN deterr ELSE r
    /\ UNCHANGED inpbuf
    /\ UNCHANGED nonDetVars

\* elif is_hex(inpbuf): ... else: raw binary
DetectHex ==
    /\ detpc = "is_hex"
    /\ LET r == is_hex(inpbuf)
       IN /\ detpc' = IF r \in {"True", "False"} THEN "done" ELSE "error"
          /\ fmt' = IF r = "True" THEN "HEX" ELSE IF r = "False" THEN "BIN" ELSE fmt
          /\ deterr' = IF r \in {"True", "False"} THEN deterr ELSE r
    /\ UNCHANGED inpbuf
    /\ UNCHANGED nonDetVars

DetectNext == ReadInput \/ DetectUF2 \/ DetectHex

SpecDetect == Init /\ [][DetectNext]_vars

\* C6: for every input buffer, the empty one and those shorter than 8 bytes
\* included, classification raises no error and yields exactly one of UF2,
\* Intel HEX and raw binary.
C6_DetectionTotal ==
    /\ detpc # "error"
    /\ detpc = "done" => fmt \in {"UF2", "HEX", "BIN"}

----------------------------------------------------------------------------
(* Family resolution *)

\* entries of chip_families (those the model draws names from)
chip_families ==
    {[id |-> "0x1b57745f", short_name |-> "NRF52"],
     [id |-> "0x68ed2b88", short_name |-> "SAMD21"],
     [id |-> "0x5a18069b", short_name |-> "FX2"],
     [id |-> "0x4f6ace52", short_name |-> "CSK4"],
     [id |-> "0x2dc309c5", short_name |-> "STM32F411xE"]}

\* str.upper(), character by character
UpperChar(c) == IF c \in Range(LowerLetters) THEN UpperLetters[IndexOf(LowerLetters, c)] ELSE c
Upper(s) == [i \in 1..Len(s) |-> UpperChar(s[i])]

LowerChar(c) == IF c \in Range(UpperLetters) THEN LowerLetters[IndexOf(UpperLetters, c)] ELSE c

HexDigits == Chars("0123456789abcdef")
IsDigitOf(c, radix) ==
    LowerChar(c) \in Range(HexDigits) /\ IndexOf(HexDigits, LowerChar(c)) <= radix
DigitValue(c) == IndexOf(HexDigits, LowerChar(c)) - 1

RECURSIVE DigitsValue(_, _)
\* the number a string of digits writes in a radix
DigitsValue(s, radix) ==
    IF s = <<>> THEN 0
    ELSE radix * DigitsValue(SubSeq(s, 1, Len(s) - 1), radix) + DigitValue(s[Len(s)])

AllDigits(s, radix) == Len(s) > 0 /\ \A i \in 1..Len(s) : IsDigitOf(s[i], radix)

\* int(s, 0): the value, or None where Python raises ValueError.  Base 0
\* reads 0x, 0o and 0b literals and decimals; a decimal with a leading zero
\* is an error unless it is all zeros.
IntBase0(s) ==
    LET n == Len(s)
        prefix == IF n >= 2 THEN <<s[1], LowerChar(s[2])>> ELSE <<>>
        rest == SubSeq(s, 3, n)
    IN IF prefix = <<"0", "x">> THEN (IF AllDigits(rest, 16) THEN DigitsValue(rest, 16) ELSE None)
       ELSE IF prefix = <<"0", "o">> THEN (IF AllDigits(rest, 8) THEN DigitsValue(rest, 8) ELSE None)
       ELSE IF prefix = <<"0", "b">> THEN (IF AllDigits(rest, 2) THEN DigitsValue(rest, 2) ELSE None)
       ELSE IF ~AllDigits(s, 10) THEN None
       ELSE IF s[1] = "0" /\ DigitsValue(s, 10) # 0 THEN None
       ELSE DigitsValue(s, 10)

\* load_families(): short name -> int(id, 0)
FamilyNames == {Chars(f.short_name) : f \in chip_families}
FamilyIdOf(name) ==
    IntBase0(Chars((CHOOSE f \in chip_families : Chars(f.short_name) = name).id))

\* the key main() looks up in the table
LookupKey(arg) == Upper(arg)

\* main(), lines 646-654: the family id, or None where main() calls error()
ResolveFamily(arg) ==
    IF LookupKey(arg) \in FamilyNames THEN FamilyIdOf(LookupKey(arg)) ELSE IntBase0(arg)

RECURSIVE CaseVariants(_)
\* every spelling of a name in upper- and lower-case letters
CaseVariants(name) ==
    IF name = <<>> THEN {<<>>}
    ELSE {<<c>> \o v : c \in {UpperChar(name[1]), LowerChar(name[1])},
                       v \in CaseVariants(Tail(name))}

NumericArgs ==
    {Chars("0x0"), Chars("0"), Chars("0x2000"), Chars("0X1f"), Chars("8192"),
     Chars("1760373640"), Chars("0x68ed2b88"), Chars("0x68ED2B88"), Chars("00")}

OtherArgs ==
    {Chars("010"), Chars("0x"), Chars("RP2"), Chars(""), Chars("0b101"), Chars("0o17"),
     Chars("12a")}

FamilyArgs ==
    UNION {CaseVariants(n) : n \in FamilyNames} \cup NumericArgs \cup OtherArgs

\* main(), lines 646-654, on --family arg
Resolve ==
    /\ fampc = "idle"
    /\ \E arg \in FamilyArgs :
          /\ family' = arg
          /\ IF ResolveFamily(arg) = None
             THEN fampc' = "error" /\ UNCHANGED familyid
             ELSE fampc' = "resolved" /\ familyid' = ResolveFamily(arg)
    /\ UNCHANGED nonFamVars

FamilyNext == Resolve

SpecFamily == Init /\ [][FamilyNext]_vars

\* a 0x... literal, and a decimal literal
IsHexLiteral(s) ==
    Len(s) >= 3 /\ s[1] = "0" /\ s[2] \in {"x", "X"} /\ AllDigits(SubSeq(s, 3, Len(s)), 16)
IsDecLiteral(s) == AllDigits(s, 10)

\* C4: every upper/lower-case spelling of a registered short name resolves
\* to that entry's id, and every hex or decimal literal resolves to its
\* numeric value.
C4_CaseInsensitive ==
    fampc # "idle" =>
        /\ \A n \in FamilyNames :
              family \in CaseVariants(n) => (fampc = "resolved" /\ familyid = FamilyIdOf(n))
        /\ IsHexLiteral(family) =>
              (fampc = "resolved" /\ familyid = DigitsValue(SubSeq(family, 3, Len(family)), 16))
        /\ IsDecLiteral(family) =>
              (fampc = "resolved" /\ familyid = DigitsValue(family, 10))

----------------------------------------------------------------------------
(* main(): conversion, file output, device output *)

\* the drives that can be mounted, in the order get_drives() lists them
AllDrives == <<"/media/D1", "/media/D2">>

\* the paths --output and --device are given in the model
OutputPaths == {"", "out"}
DevicePaths == {"", "/media/D2"}

ArgSets ==
    [deploy : BOOLEAN, info : BOOLEAN, convert : BOOLEAN, carray : BOOLEAN,
     wait : BOOLEAN, output : OutputPaths, device_path : DevicePaths]

\* get_drives(): the mounted drives that hold INFO_UF2.TXT, scanned afresh
get_drives == SelectSeq(AllDrives, LAMBDA d : d \in present)

\* whether the branch of lines 665-679 taken can raise: the UF2 decoder on a
\* bad block, the HEX reader on a bad line
CanRaise(a, f) == ~a.deploy /\ f \in {"UF2", "HEX"}

\* ext after lines 664-679
ExtOf(a, f) ==
    IF a.deploy THEN "uf2"
    ELSE IF f = "UF2" /\ ~a.info THEN "bin"
    ELSE IF f = "UF2" THEN "uf2"
    ELSE IF f = "HEX" THEN "uf2"
    ELSE IF a.carray THEN "h"
    ELSE "uf2"

\* outbuf after lines 664-679: bytes, or the str literal "" of line 671
OutKindOf(a, f) == IF ~a.deploy /\ f = "UF2" /\ a.info THEN "str" ELSE "bytes"

\* args.output after lines 683-685
OutputOf(a, e) ==
    IF (a.convert \/ e # "uf2") /\ a.output = "" THEN "flash." \o e ELSE a.output

\* a device step that --info does not switch off
DeviceStepDespiteInfo(a, e) == e = "uf2" /\ ~a.convert

\* ext == "uf2" and not args.convert and not args.info
DeviceStep(a, e) == e = "uf2" /\ ~a.convert /\ ~a.info

\* the command line is parsed, the family resolved, the input read and classified
MainStart ==
    /\ mpc = "start"
    /\ \E a \in ArgSets, f \in {"UF2", "HEX", "BIN"}, r \in BOOLEAN, p \in SUBSET Range(AllDrives) :
          /\ r => CanRaise(a, f)
          /\ args' = a
          /\ infmt' = f
          /\ raises' = r
          /\ present' = p
    /\ mpc' = "convert"
    /\ UNCHANGED <<ext, outkind, output, opened, written, drives, didx, waited>>
    /\ UNCHANGED nonMainVars

\* a conversion that opens its output file before it converts, as a
\* streaming writer would
ConvertAfterOpen ==
    /\ mpc = "convert"
    /\ opened' = opened \cup {OutputOf(args, ExtOf(args, infmt))}
    /\ IF raises
       THEN /\ mpc' = "crashed"
            /\ UNCHANGED <<ext, outkind, output>>
       ELSE /\ ext' = ExtOf(args, infmt)
            /\ outkind' = OutKindOf(args, infmt)
            /\ output' = OutputOf(args, ExtOf(args, infmt))
            /\ mpc' = "write"
    /\ UNCHANGED <<args, infmt, raises, written, present, drives, didx, waited>>
    /\ UNCHANGED nonMainVars

\* lines 664-685: the conversion, then the default output name
Convert ==
    /\ mpc = "convert"
    /\ IF raises
       THEN /\ mpc' = "crashed"
            /\ UNCHANGED <<ext, outkind, output>>
       ELSE /\ ext' = ExtOf(args, infmt)
            /\ outkind' = OutKindOf(args, infmt)
            /\ output' = OutputOf(args, ExtOf(args, infmt))
            /\ mpc' = "write"
    /\ UNCHANGED <<args, infmt, raises, opened, written, present, drives, didx, waited>>
    /\ UNCHANGED nonMainVars

\* lines 686-687: write_file(args.output, outbuf); open(name, "wb") creates
\* or truncates the file, f.write raises TypeError on a str
WriteOutput ==
    /\ mpc = "write"
    /\ IF output = ""
       THEN /\ mpc' = "device"
            /\ UNCHANGED <<opened, written>>
       ELSE /\ opened' = opened \cup {output}
            /\ IF outkind = "str"
               THEN mpc' = "crashed" /\ UNCHANGED written
               ELSE mpc' = "device" /\ written' = written \cup {output}
    /\ UNCHANGED <<args, infmt, raises, ext, outkind, output, present, drives, didx, waited>>
    /\ UNCHANGED nonMainVars

\* a first scan that raises "No drive to deploy." whether or not an output
\* file was written
ScanDrivesStrict ==
    /\ mpc = "device"
    /\ IF ~DeviceStep(args, ext)
       THEN mpc' = "exit0" /\ UNCHANGED drives
       ELSE /\ drives' = get_drives
            /\ mpc' = IF Len(get_drives) > 0 THEN "flash"
                      ELSE IF args.wait THEN "wait"
                      ELSE "exit1"
    /\ waited' = (DeviceStep(args, ext) /\ Len(get_drives) = 0 /\ args.wait)
    /\ UNCHANGED <<args, infmt, raises, ext, outkind, output, opened, written, present, didx>>
    /\ UNCHANGED nonMainVars

\* lines 688-697: the first scan for drives
ScanDrives ==
    /\ mpc = "device"
    /\ IF ~DeviceStep(args, ext)
       THEN mpc' = "exit0" /\ UNCHANGED drives
       ELSE /\ drives' = get_drives
            /\ mpc' = IF Len(get_drives) > 0 THEN "flash"
                      ELSE IF args.wait THEN "wait"
                      ELSE IF output = "" THEN "exit1"   \* error("No drive to deploy.")
                      ELSE "flash"
    /\ waited' = (DeviceStep(args, ext) /\ Len(get_drives) = 0 /\ args.wait)
    /\ UNCHANGED <<args, infmt, raises, ext, outkind, output, opened, written, present, didx>>
    /\ UNCHANGED nonMainVars

\* a poll that keeps the result of the first scan instead of scanning again
PollCached ==
    /\ mpc = "wait"
    /\ drives' = drives
    /\ mpc' = IF Len(drives) > 0 THEN "flash" ELSE "wait"
    /\ UNCHANGED <<args, infmt, raises, ext, outkind, output, opened, written, present, didx, waited>>
    /\ UNCHANGED nonMainVars

\* lines 693-695: sleep(0.1), scan again
Poll ==
    /\ mpc = "wait"
    /\ drives' = get_drives
    /\ mpc' = IF Len(get_drives) > 0 THEN "flash" ELSE "wait"
    /\ UNCHANGED <<args, infmt, raises, ext, outkind, output, opened, written, present, didx, waited>>
    /\ UNCHANGED nonMainVars

\* lines 698-700, one drive: board_id(d) reads the marker file, write_file
\* writes NEW.UF2; both raise when the drive is gone
FlashDrive ==
    /\ mpc = "flash"
    /\ didx < Len(drives)
    /\ LET d == drives[didx + 1]
       IN IF d \in present
          THEN /\ opened' = opened \cup {d \o "/NEW.UF2"}
               /\ written' = written \cup {d \o "/NEW.UF2"}
               /\ didx' = didx + 1
               /\ mpc' = "flash"
          ELSE /\ mpc' = "crashed"
               /\ UNCHANGED <<opened, written, didx>>
    /\ UNCHANGED <<args, infmt, raises, ext, outkind, output, present, drives, waited>>
    /\ UNCHANGED nonMainVars

\* the loop over the drives ends: main() returns
FlashDone ==
    /\ mpc = "flash"
    /\ didx = Len(drives)
    /\ mpc' = "exit0"
    /\ UNCHANGED <<args, infmt, raises, ext, outkind, output, opened, written, present, drives, didx, waited>>
    /\ UNCHANGED nonMainVars

\* a bootloader drive is plugged in or pulled out while main() runs
DriveChange ==
    /\ mpc \in {"device", "wait", "flash"}
    /\ \E d \in Range(AllDrives) :
          present' = IF d \in present THEN present \ {d} ELSE present \cup {d}
    /\ UNCHANGED <<mpc, args, infmt, raises, ext, outkind, output, opened, written, drives, didx, waited>>
    /\ UNCHANGED nonMainVars

MainNext ==
    \/ MainStart \/ Convert \/ WriteOutput \/ ScanDrives \/ Poll
    \/ FlashDrive \/ FlashDone \/ DriveChange

SpecMain == Init /\ [][MainNext]_vars

\* C5: with UF2 input and --info (and no --deploy) nothing is written: no
\* output file is created, opened or truncated and no drive is written,
\* whatever the other flags are.
C5_InfoWritesNothing ==
    (infmt = "UF2" /\ args.info /\ ~args.deploy) => (opened = {} /\ written = {})

\* C12: no partial output on a fatal format error: when the conversion step
\* fails, no output file has been created or written and no drive has been
\* written in that invocation; every write happens after the conversion has
\* returned its whole buffer.
C12_NoPartialOutput ==
    /\ raises => (opened = {} /\ written = {})
    /\ (opened # {} \/ written # {}) => mpc \notin {"start", "convert"}

\* a failed conversion of an invocation that names an output file and has
\* a drive mounted, so that it would have written both
C12_Witness ==
    /\ mpc = "crashed"
    /\ raises
    /\ args.output # ""
    /\ ~args.convert /\ ~args.info
    /\ present # {}


\* the upload file of a drive
UploadFile(d) == d \o "/NEW.UF2"

SpecMainFair ==
    Init /\ [][MainNext]_vars /\ WF_vars(Poll) /\ WF_vars(FlashDrive) /\ WF_vars(FlashDone)

\* the loop over the drives stopped on a drive that is gone
DriveGone == mpc = "crashed" /\ didx < Len(drives) /\ drives[didx + 1] \notin present

\* with --wait the "no drive" exit is never taken; the wait loop is left
\* only by a scan that found a drive, each turn of the loop scanning afresh,
\* so the run never ends while every scan finds none
WaitLoopSafe ==
    /\ [](args.wait => mpc # "exit1")
    /\ [](waited => (args.wait /\ mpc \in {"wait", "flash", "exit0", "crashed"}))
    /\ [][mpc = "wait" =>
            /\ mpc' \in {"wait", "flash"}
            /\ mpc' = "wait" => drives' = <<>>
            /\ mpc' = "flash" =>
                  (drives' = SelectSeq(AllDrives, LAMBDA d : d \in present) /\ drives' # <<>>)]_vars

FileOnly ==
    \/ args.convert
    \/ args.info
    \/ (~args.deploy /\ infmt = "UF2")
    \/ (~args.deploy /\ infmt = "BIN" /\ args.carray)

\* C15: drives are scanned for and written only when the output is UF2 and
\* neither --convert nor --info is given: with --convert, with --info, or
\* with flat binary or C array output, no drive is scanned, waited for or
\* written, whatever --deploy, --wait and the other flags are.
C15_FileOnlyNoDevice ==
    (mpc # "start" /\ FileOnly) =>
        /\ \A d \in Range(AllDrives) : UploadFile(d) \notin (opened \cup written)
        /\ drives = <<>> /\ ~waited
        /\ mpc \notin {"wait", "flash", "exit1"}

\* a --deploy --wait --convert run that ends with both drives mounted and
\* only its output file written
C15_Witness ==
    /\ mpc = "exit0"
    /\ args.convert /\ args.deploy /\ args.wait
    /\ present = Range(AllDrives)
    /\ output # ""
    /\ written = {output}

\* C16: when --device names a path and device writing is on (UF2 output,
\* no --convert, no --info), a run that ends normally has written the
\* result to that path.
C16_ExplicitDeviceWritten ==
    (mpc = "exit0" /\ DeviceStep(args, ext) /\ args.device_path # "")
        => (args.device_path \in written \/ UploadFile(args.device_path) \in written)

----------------------------------------------------------------------------
(* convert_from_hex_to_uf2 *)

RECURSIVE SplitLines(_)
\* buf.split('\n')
SplitLines(text) ==
    IF \A i \in 1..Len(text) : text[i] # "\n" THEN <<text>>
    ELSE LET k == CHOOSE i \in 1..Len(text) :
                      text[i] = "\n" /\ \A j \in 1..(i - 1) : text[j] # "\n"
         IN <<SubSeq(text, 1, k - 1)>> \o SplitLines(SubSeq(text, k + 1, Len(text)))

IsSpace(c) == c \in {"\r", " "}

\* int(p, 16) of the two characters line[i:i+2]; None where it raises
\* ValueError.  int() strips white space around the digits.
HexPairValue(p) ==
    IF IsDigitOf(p[1], 16) /\ IsDigitOf(p[2], 16) THEN 16 * DigitValue(p[1]) + DigitValue(p[2])
    ELSE IF IsDigitOf(p[1], 16) /\ IsSpace(p[2]) THEN DigitValue(p[1])
    ELSE IF IsSpace(p[1]) /\ IsDigitOf(p[2], 16) THEN DigitValue(p[2])
    ELSE None

\* rec: the pairs at line[1:3], line[3:5], ... while i < len(line) - 1
Rec(line) == [k \in 1..((Len(line) - 1) \div 2) |-> HexPairValue(SubSeq(line, 2 * k, 2 * k + 1))]

\* Block(addr): 256 zero bytes at an aligned address
NewBlock(addr) == [addr |-> addr, bytes |-> Zeros(ChunkSize)]

AlignDown(addr) == addr - (addr % ChunkSize)

RECURSIVE StoreDataMerged(_, _, _)
\* a store that puts a byte into an earlier block of the same base, where
\* there is one, and so merges blocks that alias one base
StoreDataMerged(bs, addr, data) ==
    IF data = <<>> THEN bs
    ELSE LET same == {k \in 1..Len(bs) : bs[k].addr = AlignDown(addr)}
             bs1 == IF same = {} THEN Append(bs, NewBlock(AlignDown(addr))) ELSE bs
             at == IF same = {} THEN Len(bs1) ELSE CHOOSE k \in same : TRUE
             bs2 == [bs1 EXCEPT ![at].bytes[(addr % ChunkSize) + 1] = Head(data)]
         IN StoreDataMerged(bs2, addr + 1, Tail(data))

RECURSIVE StoreData(_, _, _)
\* lines 531-537: the data bytes of a record, stored from addr on
StoreData(bs, addr, data) ==
    IF data = <<>> THEN bs
    ELSE LET fresh == bs = <<>> \/ bs[Len(bs)].addr # AlignDown(addr)
             bs1 == IF fresh THEN Append(bs, NewBlock(AlignDown(addr))) ELSE bs
             bs2 == [bs1 EXCEPT ![Len(bs1)].bytes[(addr % ChunkSize) + 1] = Head(data)]
         IN StoreData(bs2, addr + 1, Tail(data))

\* Block.encode(blockno, numblocks)
BlockEncode(b, blk, numblocks) ==
    LET hd == UF2_MAGIC_START0 \o UF2_MAGIC_START1 \o LE32(EncFlags(familyid))
                \o LE32(b.addr) \o LE32(ChunkSize) \o LE32(blk) \o LE32(numblocks)
                \o LE32(familyid) \o SubSeq(b.bytes, 1, ChunkSize)
    IN hd \o Zeros(BlockSize - 4 - Len(hd)) \o UF2_MAGIC_END

\* the exception one line raises, "" when none
LineError(line) ==
    LET rec == Rec(line)
    IN IF Len(line) = 0 THEN "IndexError"                    \* line[0]
       ELSE IF line[1] # ":" THEN ""
       ELSE IF \E k \in 1..Len(rec) : rec[k] = None THEN "ValueError"
       ELSE IF Len(rec) < 4 THEN "IndexError"                \* rec[3]
       ELSE IF rec[4] \in {2, 4} /\ Len(rec) < 6 THEN "IndexError"
       ELSE ""

\* lines of HEX text: data records (one with a wrong checksum, one whose
\* count byte disagrees with its data, one ending in CR, one crossing a
\* 256-byte boundary), address records, the end-of-file record, a blank
\* line, a comment, a record cut short and one with a stray character
HexLineKinds ==
    {Chars(":0100000055AA"), Chars(":0100000055FF"), Chars(":0300000055AA"),
     Chars(":0100000055AA\r"), Chars(":0200FF001122CC"), Chars(":020000040800F2"),
     Chars(":020000021000EC"), Chars(":00000001FF"), Chars(""), Chars("#c"),
     Chars(":00"), Chars(":0G000000")}

RECURSIVE HexTextsOf(_)
\* the texts of exactly n lines, joined by newlines
HexTextsOf(n) ==
    IF n = 1 THEN HexLineKinds
    ELSE {s \o <<"\n">> \o l : s \in HexTextsOf(n - 1), l \in HexLineKinds}

HexTexts == UNION {HexTextsOf(n) : n \in 1..MaxLines}

\* the call begins: appstartaddr = None, the text is split
HexCall ==
    /\ hexpc = "idle"
    /\ \E text \in HexTexts : hexlines' = SplitLines(text)
    /\ hexpc' = "lines"
    /\ lineno' = 0
    /\ appstartaddr' = None
    /\ upper' = 0
    /\ blocks' = <<>>
    /\ UNCHANGED <<resfile, hexerr>>
    /\ UNCHANGED nonHexVars

\* one iteration of the loop over the lines
HexLine ==
    /\ hexpc = "lines"
    /\ lineno < Len(hexlines)
    /\ LET line == hexlines[lineno + 1]
           rec == Rec(line)
           tp == rec[4]
           addr == upper + (256 * rec[2] + rec[3])
       IN IF LineError(line) # ""
          THEN /\ hexpc' = "error"
               /\ hexerr' = LineError(line)
               /\ UNCHANGED <<lineno, appstartaddr, upper, blocks>>
          ELSE IF line[1] # ":"
          THEN /\ lineno' = lineno + 1
               /\ UNCHANGED <<hexpc, hexerr, appstartaddr, upper, blocks>>
          ELSE IF tp = 1
          THEN /\ hexpc' = "break"
               /\ lineno' = lineno + 1
               /\ UNCHANGED <<hexerr, appstartaddr, upper, blocks>>
          ELSE /\ lineno' = lineno + 1
               /\ upper' = IF tp = 4 THEN (256 * rec[5] + rec[6]) * 65536
                           ELSE IF tp = 2 THEN (256 * rec[5] + rec[6]) * 16
                           ELSE upper
               /\ appstartaddr' = IF tp = 0 /\ appstartaddr = None THEN addr ELSE appstartaddr
               /\ blocks' = IF tp = 0
                            THEN StoreData(blocks, addr, SubSeq(rec, 5, Len(rec) - 1))
                            ELSE blocks
               /\ UNCHANGED <<hexpc, hexerr>>
    /\ UNCHANGED <<hexlines, resfile>>
    /\ UNCHANGED nonHexVars

\* lines 538-542: the blocks are encoded in list order
HexReturn ==
    /\ \/ hexpc = "lines" /\ lineno = Len(hexlines)
       \/ hexpc = "break"
    /\ hexpc' = "done"
    /\ resfile' = Join([k \in 1..Len(blocks) |-> BlockEncode(blocks[k], k - 1, Len(blocks))])
    /\ UNCHANGED <<hexlines, lineno, appstartaddr, upper, blocks, hexerr>>
    /\ UNCHANGED nonHexVars

HexNext == HexCall \/ HexLine \/ HexReturn

SpecHex == Init /\ [][HexNext]_vars

\* C7: a line that does not start with ':', the empty line included, is
\* skipped: no error is raised and the address accumulator, the start
\* address and the block list are unchanged.
C7_NonRecordSkipped ==
    [][(/\ hexpc = "lines" /\ lineno < Len(hexlines)
        /\ (Len(hexlines[lineno + 1]) = 0 \/ hexlines[lineno + 1][1] # ":"))
          => (/\ hexpc' = "lines"
              /\ lineno' = lineno + 1
              /\ UNCHANGED <<upper, appstartaddr, blocks>>)]_vars

RECURSIVE Sum(_)
Sum(s) == IF s = <<>> THEN 0 ELSE Head(s) + Sum(Tail(s))

\* a ':' record of whole bytes whose checksum is wrong or whose count byte
\* is not the number of its data bytes
Malformed(line) ==
    /\ Len(line) > 0 /\ line[1] = ":"
    /\ LET rec == Rec(line)
       IN /\ Len(rec) >= 5
          /\ \A k \in 1..Len(rec) : rec[k] # None
          /\ (Sum(rec) % 256 # 0 \/ rec[1] # Len(rec) - 5)

\* C8: a record with a wrong checksum or a wrong byte count makes the call
\* abort: it never returns UF2 output after reading one.
C8_MalformedAborts ==
    hexpc = "done" => \A k \in 1..lineno : ~Malformed(hexlines[k])

RECURSIVE BasesFrom(_, _)
\* the 256-byte-aligned bases of the data bytes of the lines read so far
\* (lines k .. lineno), in the order the bytes appear in the text; up is the
\* address accumulator before line k
BasesFrom(k, up) ==
    IF k > lineno THEN <<>>
    ELSE LET line == hexlines[k]
             rec == Rec(line)
         IN IF Len(line) = 0 \/ line[1] # ":" \/ Len(rec) < 4 THEN BasesFrom(k + 1, up)
            ELSE IF rec[4] = 4 THEN BasesFrom(k + 1, (256 * rec[5] + rec[6]) * 65536)
            ELSE IF rec[4] = 2 THEN BasesFrom(k + 1, (256 * rec[5] + rec[6]) * 16)
            ELSE IF rec[4] = 0
            THEN [i \in 1..(Len(rec) - 5) |->
                      AlignDown(up + 256 * rec[2] + rec[3] + i - 1)]
                   \o BasesFrom(k + 1, up)
            ELSE BasesFrom(k + 1, up)

RECURSIVE Collapse(_)
\* a sequence with every run of equal neighbours reduced to one element
Collapse(s) ==
    IF Len(s) <= 1 THEN s
    ELSE LET r == Collapse(SubSeq(s, 1, Len(s) - 1))
         IN IF s[Len(s)] = s[Len(s) - 1] THEN r ELSE Append(r, s[Len(s)])

\* C11: blocks are numbered in encounter order: a block is started exactly
\* when the aligned base of the incoming data byte differs from the base of
\* the block being filled (or there is none yet), so the list of block bases
\* is the list of byte bases with runs collapsed; output block k carries
\* blockIndex k and the base of the k-th block so started; nothing is sorted
\* or merged.
C11_EncounterOrder ==
    hexpc \in {"lines", "break", "done"} =>
        LET started == Collapse(BasesFrom(1, 0))
        IN /\ [k \in 1..Len(blocks) |-> blocks[k].addr] = started
           /\ hexpc = "done" =>
                 /\ Len(resfile) = BlockSize * Len(started)
                 /\ \A k \in 1..Len(started) :
                       /\ U32(Field(BlockAt(resfile, k - 1), 5)) = k - 1
                       /\ U32(Field(BlockAt(resfile, k - 1), 6)) = Len(started)
                       /\ HdAddr(BlockAt(resfile, k - 1)) = started[k]

\* a text that comes back to a base it has left yields two blocks of that
\* base, with the block of the higher base between them
C11_Witness ==
    /\ hexpc = "done"
    /\ Len(blocks) = 3
    /\ blocks[1].addr = blocks[3].addr
    /\ blocks[2].addr > blocks[1].addr
    /\ HdAddr(BlockAt(resfile, 2)) = HdAddr(BlockAt(resfile, 0))

RECURSIVE WritesFrom(_, _)
\* the bytes the Data records of the lines read so far (lines k .. lineno)
\* write, in the order of the text: address and value; up is the address
\* accumulator before line k
WritesFrom(k, up) ==
    IF k > lineno THEN <<>>
    ELSE LET line == hexlines[k]
             rec == Rec(line)
         IN IF Len(line) = 0 \/ line[1] # ":" \/ Len(rec) < 4 THEN WritesFrom(k + 1, up)
            ELSE IF rec[4] = 4 THEN WritesFrom(k + 1, (256 * rec[5] + rec[6]) * 65536)
            ELSE IF rec[4] = 2 THEN WritesFrom(k + 1, (256 * rec[5] + rec[6]) * 16)
            ELSE IF rec[4] = 0
            THEN [i \in 1..(Len(rec) - 5) |->
                      [a |-> up + 256 * rec[2] + rec[3] + i - 1, v |-> rec[4 + i]]]
                   \o WritesFrom(k + 1, up)
            ELSE WritesFrom(k + 1, up)

\* a memory byte after the output blocks were applied in blockIndex order,
\* each overwriting the 256 bytes at its target address: the byte of the
\* last block that covers the address
MemoryAt(a) ==
    LET covering == {k \in 0..(NumBlocks(resfile) - 1) :
                        HdAddr(BlockAt(resfile, k)) = AlignDown(a)}
        last == CHOOSE k \in covering : \A j \in covering : j <= k
    IN BlockAt(resfile, last)[HeaderSize + (a % ChunkSize) + 1]

\* the text read is a sequence of records with right checksums and byte
\* counts, ended by an End-Of-File record
RecordsThenEOF ==
    /\ lineno > 0
    /\ \A k \in 1..lineno :
          /\ Len(hexlines[k]) > 0 /\ hexlines[k][1] = ":"
          /\ Len(Rec(hexlines[k])) >= 5
          /\ ~Malformed(hexlines[k])
          /\ Rec(hexlines[k])[4] \in {0, 1, 2, 4}
    /\ Rec(hexlines[lineno])[4] = 1

\* C21: the output blocks, applied in blockIndex order to a memory, leave
\* at every address a Data record wrote the value of the last Data byte
\* written there: no later block overwrites with zero filler a byte that an
\* earlier Data record set.
C21_MemoryPreserved ==
    (hexpc = "done" /\ RecordsThenEOF) =>
        LET w == WritesFrom(1, 0)
        IN \A i \in 1..Len(w) :
              (\A j \in (i + 1)..Len(w) : w[j].a # w[i].a)
                  => (/\ \E k \in 0..(NumBlocks(resfile) - 1) :
                            HdAddr(BlockAt(resfile, k)) = AlignDown(w[i].a)
                      /\ MemoryAt(w[i].a) = w[i].v)

====
